---- MODULE Spec2Model ----
(***************************************************************************)
(* Model of crates/cli/util/src/parsers.rs: the command-line value parsers *)
(* parse_duration_from_secs, parse_duration_from_secs_or_ms,                *)
(* hash_or_num_value_parser, parse_socket_address and parse_ether_value.   *)
(*                                                                         *)
(* A string is a sequence of one-character strings.  Unsigned integers of  *)
(* the program (u16, u64, u128) and the mantissas of f64 values are        *)
(* little-endian sequences of 16-bit limbs without high zero limbs (zero   *)
(* is <<>>), so that every width of the program is kept exactly.           *)
(***************************************************************************)
EXTENDS Integers, Sequences, FiniteSets, TLC

\* ------------------------------------------------------------------ bounds
\* Every string over Chars of at most MaxLen characters is an input.
MaxLen == 3
\* The numbers 0..MaxNum, and as many at the end of the u16 and of the u64
\* range, are written in every form the parsers know.
MaxNum == 3

\* ------------------------------------------------- multi-limb naturals
Base == 65536

RECURSIVE Norm(_)
Norm(x) ==
  IF x = <<>> THEN <<>>
  ELSE IF x[Len(x)] = 0 THEN Norm(SubSeq(x, 1, Len(x) - 1))
  ELSE x

\* x * k + c for a small k and a carry c < Base
RECURSIVE MulAdd(_, _, _)
MulAdd(x, k, c) ==
  IF x = <<>> THEN (IF c = 0 THEN <<>> ELSE <<c>>)
  ELSE LET t == Head(x) * k + c
       IN  <<t % Base>> \o MulAdd(Tail(x), k, t \div Base)

\* quotient and remainder of x by a small k
RECURSIVE DivSmallRaw(_, _)
DivSmallRaw(x, k) ==
  IF x = <<>> THEN [q |-> <<>>, r |-> 0]
  ELSE LET hi == DivSmallRaw(Tail(x), k)
           t  == hi.r * Base + Head(x)
       IN  [q |-> <<t \div k>> \o hi.q, r |-> t % k]

DivSmall(x, k) ==
  LET d == DivSmallRaw(x, k) IN [q |-> Norm(d.q), r |-> d.r]

\* the limbs of a small integer 0 <= n < Base * Base
FromInt(n) == Norm(<<n % Base, n \div Base>>)

\* -1, 0, 1 as x < y, x = y, x > y (both without high zero limbs)
RECURSIVE CmpFrom(_, _, _)
CmpFrom(x, y, i) ==
  IF i = 0 THEN 0
  ELSE IF x[i] < y[i] THEN -1
  ELSE IF x[i] > y[i] THEN 1
  ELSE CmpFrom(x, y, i - 1)

Cmp(x, y) ==
  IF Len(x) < Len(y) THEN -1
  ELSE IF Len(x) > Len(y) THEN 1
  ELSE CmpFrom(x, y, Len(x))

RECURSIVE AddRaw(_, _, _)
AddRaw(x, y, c) ==
  IF x = <<>> /\ y = <<>> THEN (IF c = 0 THEN <<>> ELSE <<c>>)
  ELSE LET a == IF x = <<>> THEN 0 ELSE Head(x)
           b == IF y = <<>> THEN 0 ELSE Head(y)
           t == a + b + c
       IN  <<t % Base>> \o AddRaw(IF x = <<>> THEN <<>> ELSE Tail(x),
                                  IF y = <<>> THEN <<>> ELSE Tail(y),
                                  t \div Base)

Add(x, y) == AddRaw(x, y, 0)

\* x - y for x >= y
RECURSIVE SubRaw(_, _, _)
SubRaw(x, y, b) ==
  IF x = <<>> THEN <<>>
  ELSE LET s == IF y = <<>> THEN 0 ELSE Head(y)
           t == Head(x) - s - b
       IN  <<IF t < 0 THEN t + Base ELSE t>>
             \o SubRaw(Tail(x), IF y = <<>> THEN <<>> ELSE Tail(y),
                       IF t < 0 THEN 1 ELSE 0)

Sub(x, y) == Norm(SubRaw(x, y, 0))

Pow10Small == <<1, 10, 100, 1000, 10000>>

\* x * 10^n, four decimal places at a time
RECURSIVE Times10(_, _)
Times10(x, n) ==
  IF n = 0 \/ x = <<>> THEN x
  ELSE IF n >= 4 THEN Times10(MulAdd(x, 10000, 0), n - 4)
  ELSE MulAdd(x, Pow10Small[n + 1], 0)

\* x * 2^n: whole limbs, then the remaining bits
Shl(x, n) ==
  IF x = <<>> THEN <<>>
  ELSE [i \in 1..(n \div 16) |-> 0] \o MulAdd(x, 2^(n % 16), 0)

\* floor(x / 2^n)
Shr(x, n) ==
  IF n \div 16 >= Len(x) THEN <<>>
  ELSE DivSmall(SubSeq(x, (n \div 16) + 1, Len(x)), 2^(n % 16)).q

\* the number of bits of x
BitLen(x) ==
  IF x = <<>> THEN 0
  ELSE 16 * (Len(x) - 1)
       + (CHOOSE b \in 1..16 : 2^(b - 1) <= x[Len(x)] /\ x[Len(x)] < 2^b)

IsOdd(x) == x # <<>> /\ Head(x) % 2 = 1

\* widths of the program's unsigned integer types, in limbs
U16Limbs == 1
U64Limbs == 4
U128Limbs == 8

\* ------------------------------------------------------------- strings
Digits == {"0", "1", "2", "3", "4", "5", "6", "7", "8", "9"}
DigitChars == <<"0", "1", "2", "3", "4", "5", "6", "7", "8", "9">>
DigitVal(c) == (CHOOSE i \in 1..10 : DigitChars[i] = c) - 1

StartsWith(s, p) == Len(s) >= Len(p) /\ SubSeq(s, 1, Len(p)) = p
EndsWith(s, p) == Len(s) >= Len(p) /\ SubSeq(s, Len(s) - Len(p) + 1, Len(s)) = p
DropFirst(s, n) == SubSeq(s, n + 1, Len(s))
DropLast(s, n) == SubSeq(s, 1, Len(s) - n)

\* the place of the first character of s that is in cs, 0 if there is none
IndexOf(s, cs) ==
  IF \E i \in 1..Len(s) : s[i] \in cs
  THEN CHOOSE i \in 1..Len(s) : s[i] \in cs /\ \A j \in 1..(i - 1) : s[j] \notin cs
  ELSE 0

\* str::trim_end_matches: removes the pattern from the end repeatedly
RECURSIVE TrimEndMatches(_, _)
TrimEndMatches(s, p) ==
  IF EndsWith(s, p) THEN TrimEndMatches(DropLast(s, Len(p)), p) ELSE s

\* the four decimal digits of n < 10000, and n without leading zeros
FourDigits(n) ==
  <<DigitChars[(n \div 1000) + 1], DigitChars[((n \div 100) % 10) + 1],
    DigitChars[((n \div 10) % 10) + 1], DigitChars[(n % 10) + 1]>>
FewDigits(n) ==
  DropFirst(FourDigits(n),
            IF n >= 1000 THEN 0 ELSE IF n >= 100 THEN 1 ELSE IF n >= 10 THEN 2 ELSE 3)

\* integer to_string: the decimal digits, most significant first, four
\* at a time
RECURSIVE DecString(_)
DecString(x) ==
  LET d == DivSmall(x, 10000)
  IN  IF d.q = <<>> THEN FewDigits(d.r)
      ELSE DecString(d.q) \o FourDigits(d.r)

\* the number a string of at most four digits writes
FewValue(ds) ==
  LET n == Len(ds)
      v(i) == IF i < n THEN DigitVal(ds[n - i]) ELSE 0
  IN  v(0) + 10 * v(1) + 100 * v(2) + 1000 * v(3)

\* the number a string of digits writes, four digits at a time
RECURSIVE DigitsValue(_)
DigitsValue(ds) ==
  IF ds = <<>> THEN <<>>
  ELSE LET c == IF Len(ds) % 4 = 0 THEN 4 ELSE Len(ds) % 4
       IN  MulAdd(DigitsValue(DropLast(ds, c)), Pow10Small[c + 1],
                  FewValue(SubSeq(ds, Len(ds) - c + 1, Len(ds))))

\* ------------------------------------------------------------ outcomes
NoVal == <<>>
Ok(v) == [ok |-> TRUE, val |-> v, err |-> "none", detail |-> NoVal]
ErrWith(e, d) == [ok |-> FALSE, val |-> NoVal, err |-> e, detail |-> d]
Err(e) == ErrWith(e, NoVal)
IntErrors == {"Empty", "InvalidDigit", "PosOverflow"}

\* ------------------------------------- <unsigned>::from_str (radix 10)
\* The digits are accumulated from the left with checked arithmetic in w
\* limbs: the digits before the first character that is not one decide
\* between an overflow and that character being reported.
ParseUnsigned(s, w) ==
  LET ds  == IF s # <<>> /\ Head(s) = "+" THEN Tail(s) ELSE s
      bad == IndexOf(ds, {ds[i] : i \in 1..Len(ds)} \ Digits)
      v   == DigitsValue(IF bad = 0 THEN ds ELSE SubSeq(ds, 1, bad - 1))
  IN  IF s = <<>> THEN Err("Empty")
      ELSE IF s = <<"+">> \/ s = <<"-">> THEN Err("InvalidDigit")
      ELSE IF Len(v) > w THEN Err("PosOverflow")
      ELSE IF bad # 0 THEN Err("InvalidDigit")
      ELSE Ok(v)

\* ------------------------------------------------------------ Duration
DurationFromSecs(n) == [secs |-> n, nanos |-> 0]
DurationFromMillis_Micros(n) ==
  LET d == DivSmall(n, 1000) IN [secs |-> d.q, nanos |-> d.r * 1000]

DurationFromMillis(n) ==
  LET d == DivSmall(n, 1000) IN [secs |-> d.q, nanos |-> d.r * 1000000]

\* Result::map with each of the three constructors
MapSecs(r) == IF r.ok THEN Ok(DurationFromSecs(r.val)) ELSE r
MapMillis(r) == IF r.ok THEN Ok(DurationFromMillis(r.val)) ELSE r

parse_duration_from_secs_U32(arg) ==
  MapSecs(ParseUnsigned(arg, 2))

parse_duration_from_secs(arg) ==
  MapSecs(ParseUnsigned(arg, U64Limbs))

parse_duration_from_secs_or_ms_MsAsSecs(arg) ==
  IF EndsWith(arg, <<"m", "s">>)
  THEN MapSecs(ParseUnsigned(TrimEndMatches(arg, <<"m", "s">>), U64Limbs))
  ELSE IF EndsWith(arg, <<"s">>)
  THEN MapSecs(ParseUnsigned(TrimEndMatches(arg, <<"s">>), U64Limbs))
  ELSE MapSecs(ParseUnsigned(arg, U64Limbs))

parse_duration_from_secs_or_ms_DefaultMillis(arg) ==
  IF EndsWith(arg, <<"m", "s">>)
  THEN MapMillis(ParseUnsigned(TrimEndMatches(arg, <<"m", "s">>), U64Limbs))
  ELSE IF EndsWith(arg, <<"s">>)
  THEN MapSecs(ParseUnsigned(TrimEndMatches(arg, <<"s">>), U64Limbs))
  ELSE MapMillis(ParseUnsigned(arg, U64Limbs))

parse_duration_from_secs_or_ms(arg) ==
  IF EndsWith(arg, <<"m", "s">>)
  THEN MapMillis(ParseUnsigned(TrimEndMatches(arg, <<"m", "s">>), U64Limbs))
  ELSE IF EndsWith(arg, <<"s">>)
  THEN MapSecs(ParseUnsigned(TrimEndMatches(arg, <<"s">>), U64Limbs))
  ELSE MapSecs(ParseUnsigned(arg, U64Limbs))

\* -------------------------------------------------- BlockHashOrNumber
HexChars == <<"0", "1", "2", "3", "4", "5", "6", "7", "8", "9",
              "a", "b", "c", "d", "e", "f">>
UpperHexChars == <<"0", "1", "2", "3", "4", "5", "6", "7", "8", "9",
                   "A", "B", "C", "D", "E", "F">>
IsHexChar(c) == \E i \in 1..16 : HexChars[i] = c \/ UpperHexChars[i] = c
HexVal(c) == (CHOOSE i \in 1..16 : HexChars[i] = c \/ UpperHexChars[i] = c) - 1

\* B256 is 32 bytes, written as 64 hexadecimal digits
B256Bytes == 32

\* B256::from_str: an optional "0x", then exactly 64 hexadecimal digits
B256FromStr(s) ==
  LET body == IF StartsWith(s, <<"0", "x">>) THEN DropFirst(s, 2) ELSE s
  IN  IF Len(body) # 2 * B256Bytes THEN Err("InvalidStringLength")
      ELSE IF \E i \in 1..Len(body) : ~IsHexChar(body[i])
      THEN Err("InvalidHexCharacter")
      ELSE Ok([i \in 1..B256Bytes |->
                 16 * HexVal(body[2 * i - 1]) + HexVal(body[2 * i])])

HashVariant(h) == [tag |-> "Hash", hash |-> h, number |-> NoVal]
NumberVariant(n) == [tag |-> "Number", hash |-> NoVal, number |-> n]
MapNumber(r) == IF r.ok THEN Ok(NumberVariant(r.val)) ELSE r

hash_or_num_value_parser_NumberFirst(value) ==
  LET n == ParseUnsigned(value, U64Limbs)
      h == B256FromStr(value)
  IN  IF n.ok THEN Ok(NumberVariant(n.val))
      ELSE IF h.ok THEN Ok(HashVariant(h.val))
      ELSE n

hash_or_num_value_parser(value) ==
  LET h == B256FromStr(value)
  IN  IF h.ok THEN Ok(HashVariant(h.val))
      ELSE MapNumber(ParseUnsigned(value, U64Limbs))

\* ---------------------------------------------------------- SocketAddr
LOCALHOST == <<127, 0, 0, 1>>
SocketAddr(ip, port) == [ip |-> ip, port |-> port]
LocalhostPrefix == <<"l", "o", "c", "a", "l", "h", "o", "s", "t", ":">>

\* the value of a u16 as an integer
U16Value(x) == IF x = <<>> THEN 0 ELSE x[1]

\* What value.to_socket_addrs() can answer: an I/O error, or the list of
\* the addresses the host resolves to (this is the environment's choice).
ResolveOutcomes ==
  { [ok |-> FALSE, addrs |-> <<>>],
    [ok |-> TRUE, addrs |-> <<>>],
    [ok |-> TRUE, addrs |-> <<SocketAddr(<<10, 0, 0, 7>>, 80)>>],
    [ok |-> TRUE, addrs |-> <<SocketAddr(LOCALHOST, 0),
                              SocketAddr(<<10, 0, 0, 7>>, 80)>>] }

StripPortPrefix_ColonOnly(value) ==
  IF StartsWith(value, <<":">>)
  THEN [some |-> TRUE, rest |-> DropFirst(value, 1)]
  ELSE [some |-> FALSE, rest |-> <<>>]

\* value.strip_prefix(':').or_else(|| value.strip_prefix("localhost:"))
StripPortPrefix(value) ==
  IF StartsWith(value, <<":">>)
  THEN [some |-> TRUE, rest |-> DropFirst(value, 1)]
  ELSE IF StartsWith(value, LocalhostPrefix)
  THEN [some |-> TRUE, rest |-> DropFirst(value, Len(LocalhostPrefix))]
  ELSE [some |-> FALSE, rest |-> <<>>]

parse_socket_address_FallThrough(value, res) ==
  IF value = <<>> THEN [ret |-> Err("Empty"), resolved |-> FALSE]
  ELSE
    LET pre  == StripPortPrefix(value)
        port == ParseUnsigned(pre.rest, U16Limbs)
        bare == ParseUnsigned(value, U16Limbs)
    IN  IF pre.some /\ port.ok
        THEN [ret |-> Ok(SocketAddr(LOCALHOST, U16Value(port.val))),
              resolved |-> FALSE]
        ELSE IF bare.ok
        THEN [ret |-> Ok(SocketAddr(LOCALHOST, U16Value(bare.val))),
              resolved |-> FALSE]
        ELSE [ret |-> IF ~res.ok THEN Err("Io")
                      ELSE IF res.addrs = <<>> THEN ErrWith("Parse", value)
                      ELSE Ok(Head(res.addrs)),
              resolved |-> TRUE]

\* ret is what the function returns, resolved whether to_socket_addrs was
\* called; res is the answer to_socket_addrs gives if it is called.
parse_socket_address(value, res) ==
  IF value = <<>> THEN [ret |-> Err("Empty"), resolved |-> FALSE]
  ELSE
    LET pre  == StripPortPrefix(value)
        port == ParseUnsigned(pre.rest, U16Limbs)
        bare == ParseUnsigned(value, U16Limbs)
    IN  IF pre.some
        THEN [ret |-> IF port.ok
                      THEN Ok(SocketAddr(LOCALHOST, U16Value(port.val)))
                      ELSE ErrWith("Port", port.err),
              resolved |-> FALSE]
        ELSE IF bare.ok
        THEN [ret |-> Ok(SocketAddr(LOCALHOST, U16Value(bare.val))),
              resolved |-> FALSE]
        ELSE [ret |-> IF ~res.ok THEN Err("Io")
                      ELSE IF res.addrs = <<>> THEN ErrWith("Parse", value)
                      ELSE Ok(Head(res.addrs)),
              resolved |-> TRUE]

\* ------------------------------------------------------------------ f64
\* An f64 is NaN, an infinity, or mant * 2^exp with mant <= 2^53; neg is
\* its sign bit.
MantBits == 53
MinExp == -1074
MaxExp == 971
Two53 == <<0, 0, 0, 32>>

F64(kind, neg, mant, exp) == [kind |-> kind, neg |-> neg, mant |-> mant, exp |-> exp]
Finite(neg, mant, exp) ==
  IF exp > MaxExp \/ (exp = MaxExp /\ mant = Two53)
  THEN F64("inf", neg, <<>>, 0)
  ELSE F64("finite", neg, mant, exp)

\* x * 2^e (plus a fraction below 2^e if st) with x shifted right until
\* it is below 2^53; rb is the last bit shifted out and st tells whether
\* anything nonzero lies below it
Shrink(x, e, st) ==
  LET n == BitLen(x) - MantBits
      y == Shr(x, n - 1)
  IN  IF n <= 0 THEN [m |-> x, e |-> e, rb |-> 0, st |-> st]
      ELSE [m |-> Shr(y, 1), e |-> e + n, rb |-> Head(y) % 2,
            st |-> st \/ Shl(y, n - 1) # x]

\* round to nearest, ties to even
RoundEven(neg, p) ==
  Finite(neg,
         IF p.rb = 1 /\ (p.st \/ IsOdd(p.m)) THEN Add(p.m, <<1>>) ELSE p.m,
         p.e)

\* floor(x / 10^k); st tells whether the division left a remainder
RECURSIVE DivPow10(_, _, _)
DivPow10(x, k, st) ==
  IF k = 0 THEN [q |-> x, st |-> st]
  ELSE LET n == IF k >= 4 THEN 4 ELSE k
           d == DivSmall(x, Pow10Small[n + 1])
       IN  IF d.q = <<>> THEN [q |-> <<>>, st |-> st \/ d.r # 0]
           ELSE DivPow10(d.q, k - n, st \/ d.r # 0)

\* the f64 nearest to x / 10^k when floor(x / 10^k) < 2^53: the quotient
\* of x * 2^j by 10^k with j such that it has 54 bits, the last of them
\* the rounding bit, and j at most 1 - MinExp (a subnormal result)
GrowBy(neg, x, k, j) ==
  LET d == DivPow10(Shl(x, j), k, FALSE)
      h == DivSmall(d.q, 2)
  IN  [q |-> d.q,
       f |-> RoundEven(neg, [m |-> h.q, e |-> 1 - j, rb |-> h.r, st |-> d.st])]

Grow(neg, x, k) ==
  LET want == MantBits + 1 + BitLen(Times10(<<1>>, k)) - BitLen(x)
      j    == IF want > 1 - MinExp THEN 1 - MinExp ELSE want
      g    == GrowBy(neg, x, k, j)
  IN  IF BitLen(g.q) > MantBits + 1 THEN GrowBy(neg, x, k, j - 1).f ELSE g.f

\* the f64 nearest to m * 10^dexp
NearestF64(neg, m, dexp, ndigits) ==
  IF m = <<>> THEN F64("finite", neg, <<>>, 0)
  ELSE IF dexp > 310 THEN F64("inf", neg, <<>>, 0)
  ELSE IF dexp + ndigits < -330 THEN F64("finite", neg, <<>>, 0)
  ELSE IF dexp >= 0
  THEN RoundEven(neg, Shrink(Times10(m, dexp), 0, FALSE))
  ELSE LET d == DivPow10(m, -dexp, FALSE)
       IN  IF Cmp(d.q, Two53) >= 0
           THEN RoundEven(neg, Shrink(d.q, 0, d.st))
           ELSE Grow(neg, m, -dexp)


AllDigits(s) == \A i \in 1..Len(s) : s[i] \in Digits

\* the exponent digits as an integer; it stops growing at 65536
RECURSIVE ExpValue(_, _)
ExpValue(ds, acc) ==
  IF ds = <<>> THEN acc
  ELSE ExpValue(Tail(ds), IF acc < Base THEN 10 * acc + DigitVal(Head(ds)) ELSE acc)


\* The decimal number s writes: [sign] digits [. digits] [e [sign] digits]
\* with at least one digit before the exponent.  m is the number made of
\* all the mantissa digits and the value is m * 10^dexp.
Decimal(s) ==
  LET neg   == s # <<>> /\ Head(s) = "-"
      body  == IF s # <<>> /\ Head(s) \in {"+", "-"} THEN Tail(s) ELSE s
      ei    == IndexOf(body, {"e", "E"})
      mpart == IF ei = 0 THEN body ELSE SubSeq(body, 1, ei - 1)
      epart == IF ei = 0 THEN <<>> ELSE DropFirst(body, ei)
      eneg  == epart # <<>> /\ Head(epart) = "-"
      edig  == IF epart # <<>> /\ Head(epart) \in {"+", "-"} THEN Tail(epart) ELSE epart
      di    == IndexOf(mpart, {"."})
      ipart == IF di = 0 THEN mpart ELSE SubSeq(mpart, 1, di - 1)
      fpart == IF di = 0 THEN <<>> ELSE DropFirst(mpart, di)
      e     == IF eneg THEN 0 - ExpValue(edig, 0) ELSE ExpValue(edig, 0)
  IN  IF /\ AllDigits(ipart) /\ AllDigits(fpart)
         /\ Len(ipart) + Len(fpart) > 0
         /\ (ei # 0 => edig # <<>> /\ AllDigits(edig))
      THEN [valid |-> TRUE, neg |-> neg, m |-> DigitsValue(ipart \o fpart),
            dexp |-> e - Len(fpart), ndigits |-> Len(ipart) + Len(fpart)]
      ELSE [valid |-> FALSE, neg |-> neg, m |-> <<>>, dexp |-> 0, ndigits |-> 0]

Lower(c) ==
  IF \E i \in 1..26 : <<"A","B","C","D","E","F","G","H","I","J","K","L","M",
                        "N","O","P","Q","R","S","T","U","V","W","X","Y","Z">>[i] = c
  THEN <<"a","b","c","d","e","f","g","h","i","j","k","l","m",
         "n","o","p","q","r","s","t","u","v","w","x","y","z">>[
         CHOOSE i \in 1..26 :
           <<"A","B","C","D","E","F","G","H","I","J","K","L","M",
             "N","O","P","Q","R","S","T","U","V","W","X","Y","Z">>[i] = c]
  ELSE c
LowerStr(s) == [i \in 1..Len(s) |-> Lower(s[i])]

\* f64::from_str
ParseF64(s) ==
  LET d    == Decimal(s)
      body == LowerStr(IF s # <<>> /\ Head(s) \in {"+", "-"} THEN Tail(s) ELSE s)
  IN  IF s = <<>> THEN Err("EmptyFloat")
      ELSE IF d.valid THEN Ok(NearestF64(d.neg, d.m, d.dexp, d.ndigits))
      ELSE IF body = <<"n", "a", "n">> THEN Ok(F64("nan", d.neg, <<>>, 0))
      ELSE IF body \in {<<"i", "n", "f">>, <<"i", "n", "f", "i", "n", "i", "t", "y">>}
      THEN Ok(F64("inf", d.neg, <<>>, 0))
      ELSE Err("InvalidFloat")

F64MulE18_E17(x) ==
  IF x.kind # "finite" THEN x
  ELSE RoundEven(x.neg, Shrink(Times10(x.mant, 17), x.exp, FALSE))

\* 1e18 is 10^18 exactly; the exact product is rounded once
F64MulE18(x) ==
  IF x.kind # "finite" THEN x
  ELSE RoundEven(x.neg, Shrink(Times10(x.mant, 18), x.exp, FALSE))

U128Max == [i \in 1..U128Limbs |-> Base - 1]

\* `as u128` of a value that is not negative: NaN is 0, the fraction is
\* dropped, and what does not fit is u128::MAX
F64AsU128(x) ==
  IF x.kind = "nan" THEN <<>>
  ELSE IF x.kind = "inf" THEN U128Max
  ELSE IF x.mant = <<>> THEN <<>>
  ELSE IF x.exp < 0 THEN Shr(x.mant, 0 - x.exp)
  ELSE IF x.exp > 16 * U128Limbs THEN U128Max
  ELSE LET v == Shl(x.mant, x.exp)
       IN  IF Len(v) > U128Limbs THEN U128Max ELSE v

parse_ether_value_LessThanZero(value) ==
  LET eth == ParseF64(value)
  IN  IF ~eth.ok THEN eth
      ELSE IF eth.val.neg /\ eth.val.kind # "nan"
              /\ ~(eth.val.kind = "finite" /\ eth.val.mant = <<>>)
      THEN Err("Ether value cannot be negative")
      ELSE Ok(F64AsU128(F64MulE18(eth.val)))

parse_ether_value(value) ==
  LET eth == ParseF64(value)
  IN  IF ~eth.ok THEN eth
      ELSE IF eth.val.neg THEN Err("Ether value cannot be negative")
      ELSE Ok(F64AsU128(F64MulE18(eth.val)))

\* =============================================================== inputs
Chars == {"0", "1", "5", "s", "m", ":", "-", ".", "+"}

RECURSIVE StringsUpTo(_)
StringsUpTo(n) ==
  IF n = 0 THEN {<<>>}
  ELSE LET shorter == StringsUpTo(n - 1)
       IN  shorter \cup {Append(t, c) : t \in {u \in shorter : Len(u) = n - 1}, c \in Chars}

Repeat(c, n) == [i \in 1..n |-> c]

U16Max == [i \in 1..U16Limbs |-> Base - 1]
U64Max == [i \in 1..U64Limbs |-> Base - 1]

\* the ports the three forms are written for
PortSamples ==
  (0..MaxNum) \cup {U16Value(U16Max) - i : i \in 0..MaxNum} \cup {9000}
PortForms(p) ==
  LET str == DecString(FromInt(p))
  IN  {str, <<":">> \o str, LocalhostPrefix \o str}

\* the numbers durations are written for, up to the end of the u64 range
NatSamples ==
  {FromInt(n) : n \in 0..MaxNum}
    \cup {FromInt(999), FromInt(1000), FromInt(5000), FromInt(65536)}
    \cup {Sub(U64Max, FromInt(n)) : n \in 0..MaxNum}
OverSamples == {Add(U64Max, FromInt(n)) : n \in 1..(MaxNum + 1)} \cup {Add(U16Max, <<1>>)}

NumberForms(str) ==
  {str, str \o <<"s">>, str \o <<"m", "s">>, str \o <<"n", "s">>,
   str \o <<"s", "s">>, str \o <<"m", "s", "m", "s">>,
   <<"+">> \o str, <<"-">> \o str, <<"0", "0">> \o str,
   <<"0", "0">> \o str \o <<"m", "s">>, <<"+">> \o str \o <<"s">>,
   <<":">> \o str, LocalhostPrefix \o str, LocalhostPrefix \o <<"+">> \o str,
   <<"h", ":">> \o str}

EtherSamples ==
  { <<"1", ".", "0", "5">>, <<"2">>, <<"0">>, <<"-", "1">>, <<"a", "b", "c">>,
    <<"-", "0">>, <<"-", "0", ".", "0">>, <<"1", ".", "1", "5">>,
    <<"2", "3", "6", "3">>, <<"1", "e", "2", "1">>, <<"1", "e", "2", "0">>,
    <<"1", "E", "-", "1", "9">>, <<"2", "5", "e", "-", "1", "9">>,
    <<"i", "n", "f">>, <<"-", "i", "n", "f">>, <<"n", "a", "n">>,
    <<"-", "N", "a", "N">>, <<"-", "1", "e", "-", "9">>, <<"1", "e">>,
    <<"+", "1", ".", "5">>, <<"-", ".", "5">>, <<"-", "a">> }

HashSamples ==
  { <<"0", "x">> \o Repeat("a", 2 * B256Bytes),
    <<"0", "x">> \o Repeat("0", 2 * B256Bytes - 1) \o <<"1">>,
    Repeat("0", 2 * B256Bytes - 1) \o <<"1">>,
    Repeat("0", 2 * B256Bytes),
    Repeat("1", 2 * B256Bytes),
    Repeat("F", 2 * B256Bytes - 1) \o <<"e">>,
    Repeat("0", 2 * B256Bytes - 2) \o <<"1">>,
    Repeat("0", 2 * B256Bytes) \o <<"1">>,
    <<"0", "x">> \o Repeat("0", 2 * B256Bytes - 2),
    <<"0", "x">> \o Repeat("0", 2 * B256Bytes - 1) \o <<"g">>,
    <<"0", "x", "1">> }

Inputs ==
  StringsUpTo(MaxLen)
    \cup UNION {PortForms(p) : p \in PortSamples}
    \cup UNION {NumberForms(DecString(n)) : n \in NatSamples \cup OverSamples}
    \cup EtherSamples
    \cup HashSamples

\* ======================================================== state machine
VARIABLES
  arg,         \* the string the user gave
  canon,       \* the last result written back as a string, <<>> before that
  fn,          \* the parser that was called
  result,      \* what the last call returned
  prev,        \* what the call before it returned
  resolution,  \* whether and what to_socket_addrs answered in the last call
  phase        \* "start", "done" after the call, "again" after the second call

vars == <<arg, canon, fn, result, prev, resolution, phase>>

Pending == ErrWith("pending", NoVal)
NotCalled == [called |-> FALSE, ok |-> FALSE, addrs |-> <<>>]
Called(res) == [called |-> TRUE, ok |-> res.ok, addrs |-> res.addrs]

Init ==
  /\ arg \in Inputs
  /\ canon = <<>>
  /\ fn = "none"
  /\ result = Pending
  /\ prev = Pending
  /\ resolution = NotCalled
  /\ phase = "start"

Call(name, ret) ==
  /\ phase = "start"
  /\ fn' = name
  /\ result' = ret
  /\ phase' = "done"
  /\ UNCHANGED <<arg, canon, prev>>

ParseDurationFromSecs ==
  /\ Call("parse_duration_from_secs", parse_duration_from_secs(arg))
  /\ UNCHANGED resolution

ParseDurationFromSecsOrMs ==
  /\ Call("parse_duration_from_secs_or_ms", parse_duration_from_secs_or_ms(arg))
  /\ UNCHANGED resolution

HashOrNumValueParser ==
  /\ Call("hash_or_num_value_parser", hash_or_num_value_parser(arg))
  /\ UNCHANGED resolution

ParseSocketAddress ==
  \E res \in ResolveOutcomes :
    LET r == parse_socket_address(arg, res)
    IN  /\ Call("parse_socket_address", r.ret)
        /\ resolution' = IF r.resolved THEN Called(res) ELSE NotCalled

ParseEtherValue ==
  /\ Call("parse_ether_value", parse_ether_value(arg))
  /\ UNCHANGED resolution

\* A duration in its canonical form: whole seconds as n or ns, anything
\* else as its whole milliseconds followed by ms.
DurationMillis(d) == Add(MulAdd(d.secs, 1000, 0), FromInt(d.nanos \div 1000000))
CanonicalDuration(d) ==
  IF d.nanos = 0
  THEN {DecString(d.secs), DecString(d.secs) \o <<"s">>}
  ELSE {DecString(DurationMillis(d)) \o <<"m", "s">>}

\* the returned duration is written back and parsed again
ReparseDuration ==
  /\ phase = "done"
  /\ fn = "parse_duration_from_secs_or_ms"
  /\ result.ok
  /\ \E str \in CanonicalDuration(result.val) :
       /\ canon' = str
       /\ result' = parse_duration_from_secs_or_ms(str)
  /\ prev' = result
  /\ phase' = "again"
  /\ UNCHANGED <<arg, fn, resolution>>

\* the port of an address that was not resolved is written back with
\* to_string and parsed again
ReparsePort ==
  /\ phase = "done"
  /\ fn = "parse_socket_address"
  /\ result.ok
  /\ ~resolution.called
  /\ \E res \in ResolveOutcomes :
       LET str == DecString(FromInt(result.val.port))
           r   == parse_socket_address(str, res)
       IN  /\ canon' = str
           /\ result' = r.ret
           /\ resolution' = IF r.resolved THEN Called(res) ELSE NotCalled
  /\ prev' = result
  /\ phase' = "again"
  /\ UNCHANGED <<arg, fn>>

Next ==
  \/ ParseDurationFromSecs
  \/ ParseDurationFromSecsOrMs
  \/ HashOrNumValueParser
  \/ ParseSocketAddress
  \/ ParseEtherValue
  \/ ReparseDuration
  \/ ReparsePort

Spec == Init /\ [][Next]_vars

\* the string the last call was given
Given == IF phase = "again" THEN canon ELSE arg

\* ================================================ what the claims speak of
Returned(name) == phase # "start" /\ fn = name

\* s without its sign and without leading zeros ("0" for zero)
Unsigned(s) == IF s # <<>> /\ Head(s) \in {"+", "-"} THEN Tail(s) ELSE s
StripZeros(ds) ==
  LET i == IndexOf(ds, Digits \ {"0"})
  IN  IF i = 0 THEN <<"0">> ELSE DropFirst(ds, i - 1)

\* a <= b for two strings of digits without leading zeros
DecLE(a, b) ==
  \/ Len(a) < Len(b)
  \/ /\ Len(a) = Len(b)
     /\ \/ a = b
        \/ \E i \in 1..Len(a) :
             /\ DigitVal(a[i]) < DigitVal(b[i])
             /\ \A j \in 1..(i - 1) : a[j] = b[j]

U16MaxStr == <<"6", "5", "5", "3", "5">>
U64MaxStr == <<"1", "8", "4", "4", "6", "7", "4", "4", "0", "7",
               "3", "7", "0", "9", "5", "5", "1", "6", "1", "5">>

\* s writes an unsigned integer that is at most max: digits, with an
\* optional + before them
IsUnsigned(s, max) ==
  LET ds == IF s # <<>> /\ Head(s) = "+" THEN Tail(s) ELSE s
  IN  ds # <<>> /\ AllDigits(ds) /\ DecLE(StripZeros(ds), max)

HasPortPrefix(s) == StartsWith(s, <<":">>) \/ StartsWith(s, LocalhostPrefix)
AfterPortPrefix(s) ==
  IF StartsWith(s, <<":">>) THEN DropFirst(s, 1) ELSE DropFirst(s, Len(LocalhostPrefix))

IsHashLiteral(s) ==
  LET body == IF StartsWith(s, <<"0", "x">>) THEN DropFirst(s, 2) ELSE s
  IN  Len(body) = 2 * B256Bytes /\ \A i \in 1..Len(body) : IsHexChar(body[i])

\* s writes a number f64 knows: a decimal, or nan, inf, infinity
IsNumber(s) ==
  \/ Decimal(s).valid
  \/ LowerStr(Unsigned(s)) \in {<<"n", "a", "n">>, <<"i", "n", "f">>,
                                <<"i", "n", "f", "i", "n", "i", "t", "y">>}

\* floor(x * 10^18) for the decimal x that s writes
ExactWei(s) ==
  LET d == Decimal(s)
  IN  IF d.dexp + 18 >= 0 THEN Times10(d.m, d.dexp + 18)
      ELSE DivPow10(d.m, 0 - (d.dexp + 18), FALSE).q

Dist(a, b) == IF Cmp(a, b) >= 0 THEN Sub(a, b) ELSE Sub(b, a)
Least(a, b) == IF Cmp(a, b) <= 0 THEN a ELSE b

\* both fail, or both return the same value
SameOutcome(a, b) == a.ok = b.ok /\ (a.ok => a.val = b.val)

\* ================================================================ claims

\* C1: for every 16-bit port p, parse_socket_address succeeds on p, ":p"
\* and "localhost:p", returns 127.0.0.1 with port p, and does not reach the
\* address resolution.
C1_PortFormsAreLoopback ==
  Returned("parse_socket_address") =>
    \A p \in PortSamples :
      Given \in PortForms(p) =>
        /\ result = Ok(SocketAddr(LOCALHOST, p))
        /\ ~resolution.called

C1_Witness ==
  /\ phase = "done"
  /\ fn = "parse_socket_address"
  /\ arg = LocalhostPrefix \o U16MaxStr
  /\ result.ok
  /\ result.val.port = 65535

\* C2: every failure of parse_socket_address carries the variant of its
\* cause: Empty exactly for the empty string; Port exactly when the input
\* starts with ":" or "localhost:" and what follows is not a u16 (and then
\* nothing is resolved and no port is returned); Io only when the
\* resolution fails; Parse, with the input, only when the resolution
\* returns no address.
C2_ErrorMatchesCause ==
  Returned("parse_socket_address") =>
    LET badPort == /\ HasPortPrefix(Given)
                   /\ ~IsUnsigned(AfterPortPrefix(Given), U16MaxStr)
    IN  /\ result.err = "Empty" <=> Given = <<>>
        /\ result.err = "Port" <=> badPort
        /\ badPort => ~result.ok /\ ~resolution.called
        /\ result.err = "Io" => resolution.called /\ ~resolution.ok
        /\ result.err = "Parse" =>
             /\ resolution.called /\ resolution.ok /\ resolution.addrs = <<>>
             /\ result.detail = Given
        /\ result.err \in {"none", "Empty", "Port", "Io", "Parse"}

C2_Witness ==
  /\ phase = "done"
  /\ fn = "parse_socket_address"
  /\ StartsWith(arg, LocalhostPrefix)
  /\ IsUnsigned(AfterPortPrefix(arg), U64MaxStr)
  /\ result.err = "Port"
  /\ result.detail = "PosOverflow"

\* C3: for every n of the u64 range, parse_duration_from_secs_or_ms returns
\* n milliseconds for n"ms", n seconds for n"s" and for n, and fails with
\* the integer error for n"ns".
C3_UnitsOfDuration ==
  Returned("parse_duration_from_secs_or_ms") =>
    \A n \in NatSamples :
      LET str == DecString(n)
      IN  /\ Given = str \o <<"m", "s">> =>
               /\ result.ok
               /\ result.val.nanos % 1000000 = 0
               /\ DurationMillis(result.val) = n
          /\ Given \in {str, str \o <<"s">>} =>
               result = Ok([secs |-> n, nanos |-> 0])
          /\ Given = str \o <<"n", "s">> =>
               ~result.ok /\ result.err \in IntErrors

C3_Witness ==
  /\ phase = "done"
  /\ fn = "parse_duration_from_secs_or_ms"
  /\ arg = U64MaxStr \o <<"m", "s">>
  /\ result.ok
  /\ result.val.nanos = 615000000

\* C4: hash_or_num_value_parser returns the Hash variant for every input
\* that is a 32-byte hexadecimal hash literal, also when its characters are
\* decimal digits; for every other input Number(n) if the input is an
\* unsigned 64-bit decimal n, and the integer error otherwise.
C4_HashBeforeNumber ==
  Returned("hash_or_num_value_parser") =>
    IF IsHashLiteral(arg)
    THEN /\ result.ok
         /\ result.val.tag = "Hash"
         /\ Len(result.val.hash) = B256Bytes
         /\ result.val.number = NoVal
    ELSE IF IsUnsigned(arg, U64MaxStr)
    THEN /\ result.ok
         /\ result.val.tag = "Number"
         /\ DecString(result.val.number) = StripZeros(Unsigned(arg))
         /\ result.val.hash = NoVal
    ELSE ~result.ok /\ result.err \in IntErrors

C4_Witness ==
  /\ phase = "done"
  /\ fn = "hash_or_num_value_parser"
  /\ arg = Repeat("0", 2 * B256Bytes - 1) \o <<"1">>
  /\ result.ok
  /\ result.val.tag = "Hash"
  /\ result.val.hash[B256Bytes] = 1

\* C5 as it was stated: for every input that writes a decimal x that is not
\* negative, parse_ether_value returns x * 10^18 truncated toward zero.
C5_ExactTruncation ==
  (/\ Returned("parse_ether_value")
   /\ Decimal(arg).valid
   /\ ~Decimal(arg).neg
   /\ Len(ExactWei(arg)) <= U128Limbs)
    => result = Ok(ExactWei(arg))

\* C5 amended: for every input that writes a decimal x that is not
\* negative, parse_ether_value returns an unsigned 128-bit integer that is
\* within 1 + floor(x * 10^18) / 2^51 of floor(x * 10^18), the latter taken
\* as at most u128::MAX; "1.05", "2" and "0" give exactly
\* 1050000000000000000, 2000000000000000000 and 0.
C5_WithinFloatPrecision ==
  Returned("parse_ether_value") =>
    /\ (Decimal(arg).valid /\ ~Decimal(arg).neg) =>
         /\ result.ok
         /\ Len(result.val) <= U128Limbs
         /\ Cmp(Dist(result.val, Least(ExactWei(arg), U128Max)),
                Add(Shr(ExactWei(arg), 51), <<1>>)) <= 0
    /\ arg = <<"1", ".", "0", "5">> =>
         result = Ok(DigitsValue(<<"1", "0", "5">> \o Repeat("0", 16)))
    /\ arg = <<"2">> => result = Ok(DigitsValue(<<"2">> \o Repeat("0", 18)))
    /\ arg = <<"0">> => result = Ok(<<>>)

C5_Witness ==
  /\ phase = "done"
  /\ fn = "parse_ether_value"
  /\ arg = <<"1", ".", "1", "5">>
  /\ result.ok
  /\ Cmp(result.val, ExactWei(arg)) < 0

\* C6: parse_ether_value returns no value for an input whose number has a
\* negative sign, negative zero included: it fails with "cannot be
\* negative"; an input that is no number fails with the parse error.
C6_NegativeIsRejected ==
  Returned("parse_ether_value") =>
    /\ (IsNumber(arg) /\ Head(arg) = "-") =>
         result = Err("Ether value cannot be negative")
    /\ ~IsNumber(arg) =>
         ~result.ok /\ result.err \in {"EmptyFloat", "InvalidFloat"}
    /\ result.ok => IsNumber(arg) /\ Head(arg) # "-"

C6_Witness ==
  /\ phase = "done"
  /\ fn = "parse_ether_value"
  /\ arg = <<"-", "0">>
  /\ result = Err("Ether value cannot be negative")

\* C7: a duration returned by parse_duration_from_secs_or_ms, written in
\* its canonical form and parsed again, is returned again; an address
\* returned for a port form, its port written in decimal and parsed again,
\* is returned again.
C7_RoundTrip == phase = "again" => result = prev

C7_Witness ==
  /\ phase = "again"
  /\ fn = "parse_duration_from_secs_or_ms"
  /\ canon # arg
  /\ prev.ok
  /\ prev.val.nanos # 0
  /\ result.ok

\* C8: parse_duration_from_secs returns n seconds for every n of the u64
\* range written in decimal, and fails with the integer error for every
\* string that is not an unsigned integer of that range.
C8_SecondsOrIntegerError ==
  Returned("parse_duration_from_secs") =>
    /\ \A n \in NatSamples :
         arg = DecString(n) => result = Ok([secs |-> n, nanos |-> 0])
    /\ result.ok <=> IsUnsigned(arg, U64MaxStr)
    /\ result.ok =>
         /\ DecString(result.val.secs) = StripZeros(Unsigned(arg))
         /\ result.val.nanos = 0
    /\ ~result.ok => result.err \in IntErrors

C8_Witness ==
  /\ phase = "done"
  /\ fn = "parse_duration_from_secs"
  /\ arg = DecString(Add(U64Max, <<1>>))
  /\ result = Err("PosOverflow")

\* C9: parse_duration_from_secs_or_ms removes the unit suffix once: an
\* input ending in "ms" gives what parsing it without its last two
\* characters gives, as milliseconds, and an input ending in "s" but not
\* "ms" what parsing it without its last character gives, as seconds; so
\* "5msms", "5ss", "ms" and "s" fail.
C9_SuffixRemovedOnce ==
  Returned("parse_duration_from_secs_or_ms") =>
    /\ EndsWith(Given, <<"m", "s">>) =>
         SameOutcome(result,
                     MapMillis(ParseUnsigned(DropLast(Given, 2), U64Limbs)))
    /\ (EndsWith(Given, <<"s">>) /\ ~EndsWith(Given, <<"m", "s">>)) =>
         SameOutcome(result,
                     MapSecs(ParseUnsigned(DropLast(Given, 1), U64Limbs)))

\* C10: on every input that does not end with "s",
\* parse_duration_from_secs_or_ms and parse_duration_from_secs return the
\* same outcome.
C10_SameWithoutSuffix ==
  /\ (Returned("parse_duration_from_secs_or_ms") /\ ~EndsWith(Given, <<"s">>))
       => result = parse_duration_from_secs(Given)
  /\ (Returned("parse_duration_from_secs") /\ ~EndsWith(arg, <<"s">>))
       => result = parse_duration_from_secs_or_ms(arg)

C10_Witness ==
  /\ phase = "done"
  /\ fn = "parse_duration_from_secs_or_ms"
  /\ arg = <<"+", "1", "5">>
  /\ result = Ok([secs |-> <<15>>, nanos |-> 0])

====
